---- MODULE Spec2Model ----
(***************************************************************************)
(* Model of the `ren` crate: the lifetime-scoped GPU resource handles of   *)
(* src/src/gl45 (buffer, vertex array, shader stage, shader program,       *)
(* texture) over an OpenGL 4.5 driver, and the run loops of src/src/app.rs *)
(* that own the window and the context and call the user's callbacks.      *)
(*                                                                         *)
(* The driver and the windowing library are external: they are modelled by *)
(* their documented behaviour (names are unique while alive, name 0 is     *)
(* never an object, a call on a name that is no object raises an error and *)
(* has no effect).  User callbacks are the environment: inside a callback  *)
(* any resource operation may happen.                                      *)
(***************************************************************************)
EXTENDS Integers, Sequences, FiniteSets, TLC

(* ------------------------------ bounds --------------------------------- *)
\* native names the driver hands out per object kind: 1..MaxId
MaxId == 2
\* resource handles a run owns at the same time
MaxSlots == 2
\* byte length of the longest slice passed to Buffer::write / Buffer::read
MaxLen == 2
\* the largest usize of the modelled machine word
UsizeMax == 7
\* longest info-log length (terminator included) the driver reports
MaxLogLen == 2
\* iterations of the main loop that are explored
MaxFrames == 1
\* events delivered by one poll
MaxBatch == 2
\* iterations of the raw loop that are explored
MaxRawFrames == 2
\* events delivered by one poll of the raw loop
MaxRawBatch == 1
\* resource operations performed by user callbacks in one run
MaxOps == 2
\* the largest uniform location the driver reports
MaxLoc == 1
\* the largest u32 of the modelled machine (i32::MAX is half of it)
U32Max == 7

(* ------------------------------ values --------------------------------- *)
Kinds == {"Buffer", "VertexArray", "ShaderStage", "Shader", "Texture"}
Ids == 1 .. MaxId
Slots == 1 .. MaxSlots
ShaderStageKind == {"Vertex", "Fragment", "Geometry", "Compute"}
BufferUsage == {"Stream", "Static", "Dynamic"}
ElemSizes == {1, 2}
ByteVals == {1, 2}
Modes == {"app", "headless"}

\* a handle: the struct's fields (handle, size, kind of stage, texture size) and,
\* for the claims, the bytes last passed to Buffer::write
NoHandle ==
    [kind |-> "none", handle |-> 0, size |-> 0, stage |-> "none", dims |-> <<0, 0>>,
     written |-> <<>>]

RECURSIVE SeqsOf(_, _)
SeqsOf(S, n) ==
    IF n = 0 THEN {<<>>}
    ELSE LET shorter == SeqsOf(S, n - 1)
         IN  shorter \cup {Append(s, x) : s \in {t \in shorter : Len(t) = n - 1}, x \in S}

ByteSeqs == SeqsOf(ByteVals, MaxLen)

Zeros(n) == [i \in 1 .. n |-> 0]

VARIABLES
    opts,               \* the AppOptions the run entry point was called with
    debug_assertions,   \* cfg!(debug_assertions): the build profile
    mode,               \* which run entry point was called
    pc,                 \* position of the run function
    result,             \* what the run entry point returned
    wnd,                \* the native window
    viewport,           \* the driver's viewport rectangle size
    events,             \* events received and not yet flushed
    polled,             \* the events the last poll delivered
    forwarded,          \* the events passed to on_event since the last poll
    frameLog,           \* the steps of the current iteration, in order
    frames,             \* iterations started
    initResult,         \* how the user's init callback returned
    everShown,          \* the window was visible at some point of the run
    gl,                 \* the driver's objects and the record of its calls
    handles,            \* the resource handles owned by the running program
    opsLeft,            \* resource operations the callbacks may still perform
    last                \* outcome of the latest resource operation

vars == <<opts, debug_assertions, mode, pc, result, wnd, viewport, events, polled,
          forwarded, frameLog, frames, initResult, everShown, gl, handles,
          opsLeft, last>>

loopVars == <<wnd, viewport, events, polled, forwarded, frameLog, frames, initResult,
              everShown>>

(* ------------------- the driver (external collaborator) ---------------- *)
\* The largest isize: slices never hold more bytes than this.
IsizeMax == (UsizeMax - 1) \div 2

\* `x as isize` for a usize x
AsIsize(x) == IF x > IsizeMax THEN x - (UsizeMax + 1) ELSE x

InitGl ==
    [ctx      |-> FALSE,                          \* a native context is current
     live     |-> [k \in Kinds |-> {}],           \* names that are objects
     store    |-> [i \in Ids |-> <<>>],           \* data store of each buffer
     deleted  |-> [k \in Kinds |-> [i \in 0 .. MaxId |-> 0]],  \* delete calls on each name since it was returned
     stale    |-> FALSE,                          \* a call named a non-zero name that is no object
     afterEnd |-> FALSE,                          \* a call was made without a current context
     attached |-> [i \in Ids |-> {}],            \* stages attached to each program
     errors   |-> {}]                             \* pending error flags

\* every driver call: made without a current context it is recorded
GlCall(g) == IF g.ctx THEN g ELSE [g EXCEPT !.afterEnd = TRUE]

\* a call that names object `id` of kind `k` (anything but create and delete)
GlUse(g, k, id) ==
    LET c == GlCall(g)
    IN  IF id \in c.live[k] THEN c
        ELSE [c EXCEPT !.errors = @ \cup {"INVALID_OPERATION"},
                       !.stale  = (@ \/ id # 0)]

\* The names a create primitive may return for n objects: n names that are no
\* objects, or all zero when creation fails.  Names are opaque, so of the
\* unused names the driver is taken to hand out the lowest ones (a name is
\* used again as soon as it is free).
RECURSIVE LowestUnused(_, _)
LowestUnused(unused, n) ==
    IF n = 0 THEN <<>>
    ELSE LET m == CHOOSE i \in unused : \A j \in unused : i <= j
         IN  <<m>> \o LowestUnused(unused \ {m}, n - 1)

DriverNames(g, k, n) ==
    {[i \in 1 .. n |-> 0]} \cup
    (IF Cardinality(Ids \ g.live[k]) >= n THEN {LowestUnused(Ids \ g.live[k], n)} ELSE {})

\* the create primitive of kind k returned name id
GlCreate(g, k, id) ==
    LET c == GlCall(g)
    IN  IF ~c.ctx THEN c
        ELSE IF id = 0 THEN [c EXCEPT !.deleted[k][0] = 0]
        ELSE [c EXCEPT !.live[k] = @ \cup {id}, !.deleted[k][id] = 0]

\* the kind of object each delete primitive releases
DeletePrimitiveKind ==
    [DeleteBuffers |-> "Buffer", DeleteVertexArrays |-> "VertexArray",
     DeleteShader |-> "ShaderStage", DeleteProgram |-> "Shader",
     DeleteTextures |-> "Texture"]

\* a delete primitive called on name id: the object is released; name 0 and
\* names that are no objects are silently ignored
GlDelete(g, prim, id) ==
    LET c == GlCall(g)
        k == DeletePrimitiveKind[prim]
    IN  IF ~c.ctx THEN c
        ELSE [c EXCEPT !.live[k] = @ \ {id},
                       !.deleted[k][id] = IF @ < 2 THEN @ + 1 ELSE @,
                       !.store = IF k = "Buffer" /\ id \in c.live[k]
                                 THEN [@ EXCEPT ![id] = <<>>] ELSE @]

\* glNamedBufferData: replaces the whole data store of the buffer
GlNamedBufferData(g, id, size, bytes) ==
    LET c == GlUse(g, "Buffer", id)
    IN  IF id \in c.live["Buffer"] /\ size >= 0
        THEN [c EXCEPT !.store[id] = SubSeq(bytes, 1, size)]
        ELSE c

\* glGetNamedBufferSubData: [gl, dst]; copies only when the range lies in the store
GlGetNamedBufferSubData(g, id, offset, size, dst) ==
    LET c == GlUse(g, "Buffer", id)
    IN  IF id \notin c.live["Buffer"] THEN [gl |-> c, dst |-> dst]
        ELSE IF offset < 0 \/ size < 0 \/ offset + size > Len(c.store[id])
        THEN [gl |-> [c EXCEPT !.errors = @ \cup {"INVALID_VALUE"}], dst |-> dst]
        ELSE [gl |-> c,
              dst |-> [i \in 1 .. Len(dst) |->
                          IF i <= size THEN c.store[id][offset + i] ELSE dst[i]]]

\* glAttachShader / glDetachShader on program prog and stage sh
GlAttachShader(g, prog, sh) ==
    LET c == GlUse(GlUse(g, "Shader", prog), "ShaderStage", sh)
    IN  IF prog \in c.live["Shader"] /\ sh \in c.live["ShaderStage"]
        THEN IF sh \in c.attached[prog]
             THEN [c EXCEPT !.errors = @ \cup {"INVALID_OPERATION"}]
             ELSE [c EXCEPT !.attached[prog] = @ \cup {sh}]
        ELSE c

GlDetachShader(g, prog, sh) ==
    LET c == GlUse(GlUse(g, "Shader", prog), "ShaderStage", sh)
    IN  IF prog \in c.live["Shader"] /\ sh \in c.live["ShaderStage"]
        THEN IF sh \in c.attached[prog]
             THEN [c EXCEPT !.attached[prog] = @ \ {sh}]
             ELSE [c EXCEPT !.errors = @ \cup {"INVALID_OPERATION"}]
        ELSE c

(* --------------------------- resource handles -------------------------- *)
\* debug_assert!/debug_assert_ne! fails: only builds with debug assertions check
DebugAssertFails(dbg, cond) == dbg /\ ~cond

Buffer(handle, size) ==
    [kind |-> "Buffer", handle |-> handle, size |-> size, stage |-> "none", dims |-> <<0, 0>>,
     written |-> <<>>]
VertexArray(handle) ==
    [kind |-> "VertexArray", handle |-> handle, size |-> 0, stage |-> "none", dims |-> <<0, 0>>,
     written |-> <<>>]
ShaderStage(handle, kind) ==
    [kind |-> "ShaderStage", handle |-> handle, size |-> 0, stage |-> kind, dims |-> <<0, 0>>,
     written |-> <<>>]
Shader(handle) ==
    [kind |-> "Shader", handle |-> handle, size |-> 0, stage |-> "none", dims |-> <<0, 0>>,
     written |-> <<>>]
Texture(handle, dims) ==
    [kind |-> "Texture", handle |-> handle, size |-> 0, stage |-> "none", dims |-> dims,
     written |-> <<>>]

\* the Drop implementations: one delete call on the wrapped name
DropBuffer(g, h) == GlDelete(g, "DeleteBuffers", h.handle)
DropVertexArray(g, h) == GlDelete(g, "DeleteVertexArrays", h.handle)
DropShaderStage(g, h) == GlDelete(g, "DeleteShader", h.handle)
DropTexture(g, h) == GlDelete(g, "DeleteTextures", h.handle)
\* (mutant) the program is released with the stage primitive
DropShader_WrongPrimitive(g, h) == GlDelete(g, "DeleteShader", h.handle)

DropShader(g, h) ==
    LET c == GlDelete(g, "DeleteProgram", h.handle)
    IN  IF h.handle = 0 THEN c ELSE [c EXCEPT !.attached[h.handle] = {}]

\* a value going out of scope
Drop(g, h) ==
    CASE h.kind = "Buffer"      -> DropBuffer(g, h)
      [] h.kind = "VertexArray" -> DropVertexArray(g, h)
      [] h.kind = "ShaderStage" -> DropShaderStage(g, h)
      [] h.kind = "Shader"      -> DropShader(g, h)
      [] h.kind = "Texture"     -> DropTexture(g, h)
      [] OTHER                  -> g

RECURSIVE DropSeq(_, _)
DropSeq(g, hs) == IF hs = <<>> THEN g ELSE DropSeq(Drop(g, Head(hs)), Tail(hs))

RECURSIVE CreateSeq(_, _, _)
CreateSeq(g, k, ids) ==
    IF ids = <<>> THEN g ELSE CreateSeq(GlCreate(g, k, Head(ids)), k, Tail(ids))

\* Buffer::create_multi: the driver returned `ids`.  The handles are built one
\* by one; a failed assertion unwinds, dropping the handles built so far.
Buffer_create_multi(g, ids, dbg) ==
    LET c     == CreateSeq(g, "Buffer", ids)
        zeros == {i \in 1 .. Len(ids) : ids[i] = 0}
        first == CHOOSE i \in zeros : \A j \in zeros : i <= j
    IN  IF zeros # {} /\ DebugAssertFails(dbg, FALSE)
        THEN [gl |-> DropSeq(c, [i \in 1 .. first - 1 |-> Buffer(ids[i], 0)]),
              panicked |-> TRUE, bufs |-> <<>>]
        ELSE [gl |-> c, panicked |-> FALSE,
              bufs |-> [i \in 1 .. Len(ids) |-> Buffer(ids[i], 0)]]

\* (mutant) the written bytes are appended: the recorded size grows
Buffer_write_Appends(g, buf, count, elem, bytes) ==
    LET size == (buf.size + count * elem) % (UsizeMax + 1)
    IN  [gl  |-> GlNamedBufferData(g, buf.handle, AsIsize(size), bytes),
         buf |-> [buf EXCEPT !.size = size, !.written = bytes]]

\* Buffer::write: record the byte size, then replace the data store
Buffer_write(g, buf, count, elem, bytes) ==
    LET size == (count * elem) % (UsizeMax + 1)
    IN  [gl  |-> GlNamedBufferData(g, buf.handle, AsIsize(size), bytes),
         buf |-> [buf EXCEPT !.size = size, !.written = bytes]]

\* Buffer::with_data: create one buffer, then write it; [gl, panicked, bufs]
Buffer_with_data(g, ids, count, elem, bytes, dbg) ==
    LET c == Buffer_create_multi(g, ids, dbg)
        w == Buffer_write(c.gl, c.bufs[1], count, elem, bytes)
    IN  IF c.panicked THEN c
        ELSE [gl |-> w.gl, panicked |-> FALSE, bufs |-> <<w.buf>>]

\* Buffer::read of `count` elements of `elem` bytes at byte `offset` into dst.
\* The sum is computed in usize: builds with debug assertions check the
\* overflow and panic, the others wrap.
Buffer_read(g, buf, offset, count, elem, dst, dbg) ==
    LET read_size == (count * elem) % (UsizeMax + 1)
        sum       == offset + read_size
        read_end  == sum % (UsizeMax + 1)
    IN  IF dbg /\ sum > UsizeMax
        THEN [gl |-> g, panicked |-> TRUE, issued |-> FALSE, dst |-> dst]
        ELSE IF read_end > buf.size
        THEN [gl |-> g, panicked |-> TRUE, issued |-> FALSE, dst |-> dst]
        ELSE LET r == GlGetNamedBufferSubData(g, buf.handle, AsIsize(offset),
                                              AsIsize(read_size), dst)
             IN  [gl |-> r.gl, panicked |-> FALSE, issued |-> TRUE, dst |-> r.dst]

(* ------------------------------ shaders -------------------------------- *)
None == [some |-> FALSE, val |-> <<>>]
Some(v) == [some |-> TRUE, val |-> v]

\* the bytes a driver may put in an info log: a valid character, or a byte
\* that is no valid UTF-8
LogBytes == {"e", "0xFF"}
\* the info logs a driver may report: INFO_LOG_LENGTH (0: no log, otherwise the
\* terminator is counted) and the text
DriverLogs ==
    {[len |-> 0, text |-> <<>>]} \cup
    {[len |-> Len(t) + 1, text |-> t] : t \in SeqsOf(LogBytes, MaxLogLen - 1)}

\* String::from_utf8, falling back to String::from_utf8_lossy
Utf8Lossy(bytes) ==
    [i \in 1 .. Len(bytes) |-> IF bytes[i] = "0xFF" THEN "U+FFFD" ELSE bytes[i]]

NoLogText == <<"[", "n", "o", " ", "l", "o", "g", "]">>

\* get_shader_info_log / get_program_info_log on an object (live: the driver
\* answers the queries; otherwise the queried values keep their initial 0)
get_shader_info_log(live, log) ==
    LET len == IF live THEN log.len ELSE 0
    IN  IF len = 0 THEN None ELSE Some(Utf8Lossy(SubSeq(log.text, 1, len - 1)))

get_program_info_log(live, log) ==
    LET len == IF live THEN log.len ELSE 0
    IN  IF len = 0 THEN None ELSE Some(Utf8Lossy(SubSeq(log.text, 1, len - 1)))

NoError == [type |-> "none", handle |-> 0, stage |-> "none", text |-> <<>>]

\* ShaderStage::compile: [gl, err]
ShaderStage_compile(g, sh, compiles, log) ==
    LET c           == GlUse(GlUse(GlUse(g, "ShaderStage", sh.handle),
                                   "ShaderStage", sh.handle), "ShaderStage", sh.handle)
        live        == sh.handle \in c.live["ShaderStage"]
        is_compiled == live /\ compiles
        lg          == get_shader_info_log(live, log)
    IN  IF is_compiled THEN [gl |-> c, err |-> NoError]
        ELSE [gl  |-> c,
              err |-> [type |-> "Compile", handle |-> sh.handle, stage |-> sh.stage,
                       text |-> IF lg.some THEN lg.val ELSE NoLogText]]

\* (mutant) the handle is built only after a successful compile, so a failed
\* compile returns without releasing the name
ShaderStage_create_LateConstruct(g, kind, id, compiles, log, dbg) ==
    LET c      == GlCreate(g, "ShaderStage", id)
        shader == ShaderStage(id, kind)
        r      == ShaderStage_compile(c, shader, compiles, log)
    IN  IF DebugAssertFails(dbg, id # 0)
        THEN [gl |-> c, outcome |-> "panic", handle |-> NoHandle, err |-> NoError]
        ELSE IF r.err.type # "none"
        THEN [gl |-> r.gl, outcome |-> "err", handle |-> NoHandle, err |-> r.err]
        ELSE [gl |-> r.gl, outcome |-> "ok", handle |-> shader, err |-> NoError]

\* ShaderStage::create: the driver returned name `id`; [gl, outcome, handle, err]
ShaderStage_create(g, kind, id, compiles, log, dbg) ==
    LET c      == GlCreate(g, "ShaderStage", id)
        shader == ShaderStage(id, kind)
        r      == ShaderStage_compile(c, shader, compiles, log)
    IN  IF DebugAssertFails(dbg, id # 0)
        THEN [gl |-> c, outcome |-> "panic", handle |-> NoHandle, err |-> NoError]
        ELSE IF r.err.type # "none"
        THEN [gl |-> DropShaderStage(r.gl, shader), outcome |-> "err",
              handle |-> NoHandle, err |-> r.err]
        ELSE [gl |-> r.gl, outcome |-> "ok", handle |-> shader, err |-> NoError]

RECURSIVE attach_shaders(_, _, _, _)
\* attach_shaders: [gl, panicked]; attach_shader asserts both names
attach_shaders(g, program, shaders, dbg) ==
    IF shaders = <<>> THEN [gl |-> g, panicked |-> FALSE]
    ELSE IF DebugAssertFails(dbg, program # 0) \/ DebugAssertFails(dbg, Head(shaders) # 0)
    THEN [gl |-> g, panicked |-> TRUE]
    ELSE attach_shaders(GlAttachShader(g, program, Head(shaders)), program, Tail(shaders), dbg)

RECURSIVE detach_shaders(_, _, _, _)
detach_shaders(g, program, shaders, dbg) ==
    IF shaders = <<>> THEN [gl |-> g, panicked |-> FALSE]
    ELSE IF DebugAssertFails(dbg, program # 0) \/ DebugAssertFails(dbg, Head(shaders) # 0)
    THEN [gl |-> g, panicked |-> TRUE]
    ELSE detach_shaders(GlDetachShader(g, program, Head(shaders)), program, Tail(shaders), dbg)

\* Shader::check_log: the error text, or None on success
Shader_check_log(live, was_success, log) ==
    LET lg == get_program_info_log(live, log)
    IN  IF was_success THEN None
        ELSE Some(IF lg.some THEN lg.val ELSE NoLogText)

\* Shader::link: [gl, status, err]
Shader_link(g, sh, links, log) ==
    LET c         == GlUse(GlUse(g, "Shader", sh.handle), "Shader", sh.handle)
        live      == sh.handle \in c.live["Shader"]
        is_linked == live /\ links
        res       == Shader_check_log(live, is_linked, log)
    IN  [gl  |-> c, status |-> is_linked,
         err |-> IF res.some
                 THEN [type |-> "Link", handle |-> sh.handle, stage |-> "none", text |-> res.val]
                 ELSE NoError]

\* (mutant) a failed validation is reported with the Link variant
Shader_validate_AsLink(g, sh, validates, log) ==
    LET c            == GlUse(GlUse(g, "Shader", sh.handle), "Shader", sh.handle)
        live         == sh.handle \in c.live["Shader"]
        is_validated == live /\ validates
        res          == Shader_check_log(live, is_validated, log)
    IN  [gl  |-> c, status |-> is_validated,
         err |-> IF res.some
                 THEN [type |-> "Link", handle |-> sh.handle, stage |-> "none",
                       text |-> res.val]
                 ELSE NoError]

\* Shader::validate: [gl, status, err]
Shader_validate(g, sh, validates, log) ==
    LET c            == GlUse(GlUse(g, "Shader", sh.handle), "Shader", sh.handle)
        live         == sh.handle \in c.live["Shader"]
        is_validated == live /\ validates
        res          == Shader_check_log(live, is_validated, log)
    IN  [gl  |-> c, status |-> is_validated,
         err |-> IF res.some
                 THEN [type |-> "Validation", handle |-> sh.handle, stage |-> "none",
                       text |-> res.val]
                 ELSE NoError]

\* Shader::init after `self.link()` returned l: `?` returns a link error,
\* otherwise the result is that of `self.validate()`; [gl, err, steps, status]
Shader_init_validate(l, sh, validates, log) ==
    IF l.err.type # "none"
    THEN [gl |-> l.gl, err |-> l.err, steps |-> <<"link">>, status |-> <<l.status>>]
    ELSE [Shader_validate(l.gl, sh, validates, log) EXCEPT
              !.status = <<l.status, @>>] @@ [steps |-> <<"link", "validate">>]

\* Shader::init: bind_data_locations, link, and validate only after a link
\* that succeeded; [gl, err, steps, status]: the steps taken and the status
\* each of them read from the driver
Shader_init(g, sh, links, validates, log) ==
    Shader_init_validate(Shader_link(GlUse(g, "Shader", sh.handle), sh, links, log),
                         sh, validates, log)

\* Shader::create once the stages are detached (d), init having returned r with
\* the stages `atLink` attached: the handle on success; on an error, or on a
\* failed assertion in detach_shader, the handle is dropped
Shader_create_result(r, d, shader, atLink) ==
    [gl             |-> IF d.panicked \/ r.err.type # "none"
                        THEN DropShader(d.gl, shader) ELSE d.gl,
     outcome        |-> IF d.panicked THEN "panic"
                        ELSE IF r.err.type # "none" THEN "err" ELSE "ok",
     handle         |-> IF d.panicked \/ r.err.type # "none" THEN NoHandle ELSE shader,
     err            |-> IF d.panicked THEN NoError ELSE r.err,
     steps          |-> r.steps,
     status         |-> r.status,
     attachedAtLink |-> atLink]

\* (mutant) the stages are deleted once they are detached
Shader_create_detach_DeletesStages(r, stages, id, dbg, atLink) ==
    LET d == detach_shaders(r.gl, id, stages, dbg)
        Del[i \in 0 .. Len(stages)] ==
            IF i = 0 THEN d.gl ELSE GlDelete(Del[i - 1], "DeleteShader", stages[i])
    IN  Shader_create_result(r, [gl |-> Del[Len(stages)], panicked |-> d.panicked],
                             Shader(id), atLink)

\* Shader::create once init returned r: the stages are detached
Shader_create_detach(r, stages, id, dbg, atLink) ==
    Shader_create_result(r, detach_shaders(r.gl, id, stages, dbg), Shader(id), atLink)

\* Shader::create once the stages are attached (a): a failed assertion in
\* attach_shader unwinds through the handle, otherwise init runs
Shader_create_init(a, stages, id, links, validates, log, dbg) ==
    IF a.panicked
    THEN [gl |-> DropShader(a.gl, Shader(id)), outcome |-> "panic", handle |-> NoHandle,
          err |-> NoError, steps |-> <<>>, status |-> <<>>, attachedAtLink |-> {}]
    ELSE Shader_create_detach(Shader_init(a.gl, Shader(id), links, validates, log),
                              stages, id, dbg,
                              IF id = 0 THEN {} ELSE a.gl.attached[id])

\* Shader::create on the stages named `stages`: the driver returned name `id`;
\* [gl, outcome, handle, err, steps, status, attachedAtLink]
Shader_create(g, stages, id, links, validates, log, dbg) ==
    IF DebugAssertFails(dbg, id # 0)
    THEN [gl |-> GlCreate(g, "Shader", id), outcome |-> "panic", handle |-> NoHandle,
          err |-> NoError, steps |-> <<>>, status |-> <<>>, attachedAtLink |-> {}]
    ELSE Shader_create_init(attach_shaders(GlCreate(g, "Shader", id), id, stages, dbg),
                            stages, id, links, validates, log, dbg)

(* --------------------------- vertex arrays ----------------------------- *)
Call(fn, a, b) == [fn |-> fn, a |-> a, b |-> b]

\* (mutant) the attribute bindings are wired before the buffers are bound
VertexArrayDesc_apply_BindingsFirst(g, desc, vao) ==
    LET nb  == Len(desc.buffers)
        np  == Len(desc.bind_points)
        ok  == IF np <= nb THEN np ELSE nb
        bp  == [i \in 1 .. ok |->
                  Call("VertexArrayVertexBuffer", desc.bind_points[i], desc.buffers[i].handle)]
        bd  == [i \in 1 .. Len(desc.bindings) |->
                  Call("VertexArrayAttribBinding", desc.bindings[i][1], desc.bindings[i][2])]
        at  == [i \in 1 .. 2 * Len(desc.attribs) |->
                  IF i % 2 = 1
                  THEN Call("EnableVertexArrayAttrib", desc.attribs[(i + 1) \div 2], 0)
                  ELSE Call("VertexArrayAttribFormat", desc.attribs[i \div 2], 0)]
        calls == IF np > nb THEN bd \o bp ELSE bd \o bp \o at
        Touch[i \in 0 .. Len(calls)] ==
            IF i = 0 THEN g
            ELSE IF calls[i].fn = "VertexArrayVertexBuffer"
                 THEN GlUse(GlUse(Touch[i - 1], "VertexArray", vao), "Buffer", calls[i].b)
                 ELSE GlUse(Touch[i - 1], "VertexArray", vao)
    IN  [gl |-> Touch[Len(calls)], panicked |-> np > nb, calls |-> calls]

\* (mutant) bind points and buffers are zipped: a bind point without a buffer
\* is skipped silently
VertexArrayDesc_apply_Zip(g, desc, vao) ==
    LET nb  == Len(desc.buffers)
        np  == Len(desc.bind_points)
        ok  == IF np <= nb THEN np ELSE nb
        bp  == [i \in 1 .. ok |->
                  Call("VertexArrayVertexBuffer", desc.bind_points[i], desc.buffers[i].handle)]
        bd  == [i \in 1 .. Len(desc.bindings) |->
                  Call("VertexArrayAttribBinding", desc.bindings[i][1], desc.bindings[i][2])]
        at  == [i \in 1 .. 2 * Len(desc.attribs) |->
                  IF i % 2 = 1
                  THEN Call("EnableVertexArrayAttrib", desc.attribs[(i + 1) \div 2], 0)
                  ELSE Call("VertexArrayAttribFormat", desc.attribs[i \div 2], 0)]
        calls == bp \o bd \o at
        Touch[i \in 0 .. Len(calls)] ==
            IF i = 0 THEN g
            ELSE IF calls[i].fn = "VertexArrayVertexBuffer"
                 THEN GlUse(GlUse(Touch[i - 1], "VertexArray", vao), "Buffer", calls[i].b)
                 ELSE GlUse(Touch[i - 1], "VertexArray", vao)
    IN  [gl |-> Touch[Len(calls)], panicked |-> FALSE, calls |-> calls]

\* VertexArrayDesc::apply on vertex array `vao`: [gl, panicked, calls].
\* bind point i takes buffer i: indexing past the buffers panics.
VertexArrayDesc_apply(g, desc, vao) ==
    LET nb  == Len(desc.buffers)
        np  == Len(desc.bind_points)
        ok  == IF np <= nb THEN np ELSE nb      \* bind points applied before a panic
        bp  == [i \in 1 .. ok |->
                  Call("VertexArrayVertexBuffer", desc.bind_points[i], desc.buffers[i].handle)]
        bd  == [i \in 1 .. Len(desc.bindings) |->
                  Call("VertexArrayAttribBinding", desc.bindings[i][1], desc.bindings[i][2])]
        at  == [i \in 1 .. 2 * Len(desc.attribs) |->
                  IF i % 2 = 1
                  THEN Call("EnableVertexArrayAttrib", desc.attribs[(i + 1) \div 2], 0)
                  ELSE Call("VertexArrayAttribFormat", desc.attribs[i \div 2], 0)]
        calls == IF np > nb THEN bp ELSE bp \o bd \o at
        Touch[i \in 0 .. Len(calls)] ==
            IF i = 0 THEN g
            ELSE IF calls[i].fn = "VertexArrayVertexBuffer"
                 THEN GlUse(GlUse(Touch[i - 1], "VertexArray", vao), "Buffer", calls[i].b)
                 ELSE GlUse(Touch[i - 1], "VertexArray", vao)
    IN  [gl |-> Touch[Len(calls)], panicked |-> np > nb, calls |-> calls]

\* VertexArray::create: the driver returned name `id`; [gl, panicked, handle]
VertexArray_create(g, id, dbg) ==
    [gl       |-> GlCreate(g, "VertexArray", id),
     panicked |-> DebugAssertFails(dbg, id # 0),
     handle   |-> VertexArray(id)]

\* VertexArray::new: create, then apply the descriptor; a panic in apply
\* unwinds through the new handle; [gl, panicked, handle, calls]
VertexArray_new(g, desc, id, dbg) ==
    LET c == VertexArray_create(g, id, dbg)
        a == VertexArrayDesc_apply(c.gl, desc, id)
    IN  IF c.panicked
        THEN [gl |-> c.gl, panicked |-> TRUE, handle |-> NoHandle, calls |-> <<>>]
        ELSE IF a.panicked
        THEN [gl |-> DropVertexArray(a.gl, c.handle), panicked |-> TRUE,
              handle |-> NoHandle, calls |-> a.calls]
        ELSE [gl |-> a.gl, panicked |-> FALSE, handle |-> c.handle, calls |-> a.calls]

(* ------------------------------ textures ------------------------------- *)
\* Texture::create: the driver returned name `id`; storage and the default
\* parameters are set on the new name; [gl, panicked, handle]
Texture_create(g, size, id, dbg) ==
    LET c   == GlCreate(g, "Texture", id)
        tex == Texture(id, size)
        Params[i \in 0 .. 7] == IF i = 0 THEN c ELSE GlUse(Params[i - 1], "Texture", id)
    IN  IF DebugAssertFails(dbg, id # 0)
        THEN [gl |-> c, panicked |-> TRUE, handle |-> NoHandle]
        ELSE [gl |-> Params[7], panicked |-> FALSE, handle |-> tex]

\* PixelFormat and the bytes one pixel of it takes with UNSIGNED_BYTE
PixelFormat == {"R", "Rg", "Rgb", "Rgba"}
Components(format) ==
    CASE format = "R" -> 1 [] format = "Rg" -> 2 [] format = "Rgb" -> 3 [] format = "Rgba" -> 4

I32Max == (U32Max - 1) \div 2
\* `x as i32` for a u32 x
AsI32(x) == IF x > I32Max THEN x - (U32Max + 1) ELSE x

\* glTextureSubImage2D on texture id whose level 0 has size dims: a region
\* that is negative or not inside the level raises INVALID_VALUE and nothing
\* is uploaded; [gl, accepted]
GlTextureSubImage2D(g, id, dims, x, y, width, height) ==
    LET c      == GlUse(g, "Texture", id)
        inside == /\ x >= 0 /\ y >= 0 /\ width >= 0 /\ height >= 0
                  /\ x + width <= dims[1] /\ y + height <= dims[2]
    IN  IF id \notin c.live["Texture"] THEN [gl |-> c, accepted |-> FALSE]
        ELSE IF ~inside
        THEN [gl |-> [c EXCEPT !.errors = @ \cup {"INVALID_VALUE"}], accepted |-> FALSE]
        ELSE [gl |-> c, accepted |-> TRUE]

\* Texture::upload_sub_image_data_from_ptr: every check is a debug_assert!, and
\* the sums and products are u32 (an overflow panics where they are computed,
\* that is in builds with debug assertions); [gl, panicked, calls, accepted]
Texture_upload_sub_image_data_from_ptr(g, tex, x, y, width, height, dbg) ==
    LET checks == /\ x < I32Max /\ y < I32Max /\ width < I32Max /\ height < I32Max
                  /\ x + width <= U32Max /\ tex.dims[1] >= x + width
                  /\ y + height <= U32Max /\ tex.dims[2] >= y + height
                  /\ tex.dims[1] * tex.dims[2] <= U32Max /\ width * height <= U32Max
                  /\ tex.dims[1] * tex.dims[2] >= width * height
        r      == GlTextureSubImage2D(g, tex.handle, tex.dims, AsI32(x), AsI32(y),
                                      AsI32(width), AsI32(height))
    IN  IF DebugAssertFails(dbg, checks)
        THEN [gl |-> g, panicked |-> TRUE, calls |-> <<>>, accepted |-> FALSE]
        ELSE [gl |-> r.gl, panicked |-> FALSE,
              calls |-> <<[x |-> AsI32(x), y |-> AsI32(y), width |-> AsI32(width),
                           height |-> AsI32(height)]>>,
              accepted |-> r.accepted]

\* Texture::upload_sub_image_data with a slice of `len` bytes: the slice is
\* checked against width * height (usize), then passed on as a pointer; the
\* driver reads width * height pixels of `format` from it;
\* [gl, panicked, calls, accepted, read]
Texture_upload_sub_image_data(g, tex, x, y, width, height, format, len, dbg) ==
    LET fits == width * height <= UsizeMax /\ width * height <= len
        r    == Texture_upload_sub_image_data_from_ptr(g, tex, x, y, width, height, dbg)
    IN  IF DebugAssertFails(dbg, fits)
        THEN [gl |-> g, panicked |-> TRUE, calls |-> <<>>, accepted |-> FALSE, read |-> 0]
        ELSE [gl |-> r.gl, panicked |-> r.panicked, calls |-> r.calls,
              accepted |-> r.accepted,
              read |-> IF r.accepted THEN width * height * Components(format) ELSE 0]

(* ------------------------------ uniforms ------------------------------- *)
\* what gl::GetUniformLocation may report: -1 for a name that is no active
\* uniform, otherwise the location
DriverLocs == -1 .. MaxLoc

\* (mutant) location 0 is taken for absent
get_uniform_location_from_c_char_ptr_Positive(g, program, loc) ==
    LET c        == GlUse(g, "Shader", program)
        reported == IF program \in c.live["Shader"] THEN loc ELSE -1
    IN  [gl |-> c, loc |-> reported,
         result |-> IF reported > 0 THEN Some(reported) ELSE None]

\* UniformLocation::get_uniform_location_from_c_char_ptr: the driver reports
\* `loc` for a program object and -1 (with an error) otherwise; `loc as u32`
\* keeps the value of a non-negative i32; [gl, loc, result]
get_uniform_location_from_c_char_ptr(g, program, loc) ==
    LET c        == GlUse(g, "Shader", program)
        reported == IF program \in c.live["Shader"] THEN loc ELSE -1
    IN  [gl |-> c, loc |-> reported,
         result |-> IF reported >= 0 THEN Some(reported) ELSE None]

\* UniformLocation::get_uniform_location: CString::new fails on a name with a
\* nul byte; builds with debug assertions panic, in the others
\* unwrap_unchecked is undefined behaviour: the process dies (ub = "abort") or
\* goes on with whatever bytes it finds (ub = "call");
\* [gl, panicked, aborted, asked, loc, result]
get_uniform_location(g, program, has_nul, loc, dbg, ub) ==
    LET r == get_uniform_location_from_c_char_ptr(g, program, loc)
    IN  IF has_nul /\ dbg
        THEN [gl |-> g, panicked |-> TRUE, aborted |-> FALSE, asked |-> FALSE,
              loc |-> 0, result |-> None]
        ELSE IF has_nul /\ ub = "abort"
        THEN [gl |-> g, panicked |-> FALSE, aborted |-> TRUE, asked |-> FALSE,
              loc |-> 0, result |-> None]
        ELSE [gl |-> r.gl, panicked |-> FALSE, aborted |-> FALSE, asked |-> TRUE,
              loc |-> r.loc, result |-> r.result]

(* ------------------------- window and events --------------------------- *)
Ev(type, w, h, key, action) ==
    [type |-> type, w |-> w, h |-> h, key |-> key, action |-> action]
FramebufferSize(w, h) == Ev("FramebufferSize", w, h, "none", "none")
Key(key, action) == Ev("Key", 0, 0, key, action)
Close == Ev("Close", 0, 0, "none", "none")

FramebufferSizes == {<<1, 2>>}
WindowEvent ==
    {FramebufferSize(s[1], s[2]) : s \in FramebufferSizes} \cup
    {Key("Escape", "Press"), Key("Escape", "Release"), Close}

\* AppOptions: title, window_size, gl_version, gl_debug_output
AppOptions_default(dbg) ==
    [title |-> "CARGO_PKG_NAME", window_size |-> <<856, 482>>, gl_version |-> <<4, 5>>,
     gl_debug_output |-> dbg]
AppOptions(dbg) ==
    {AppOptions_default(dbg)} \cup
    [title : {"CARGO_PKG_NAME", "demo"}, window_size : {<<856, 482>>, <<1280, 720>>},
     gl_version : {<<4, 5>>, <<3, 3>>}, gl_debug_output : BOOLEAN]

is_debug_output_supported(version) ==
    (version[1] = 4 /\ version[2] >= 3) \/ version[1] > 4

\* a window: whether it exists, is visible and was asked to close, and what it
\* was created with (title, size, the window hints)
NoWindow ==
    [exists |-> FALSE, visible |-> FALSE, should_close |-> FALSE, title |-> "",
     size |-> <<0, 0>>, hints |-> [ContextVersion |-> <<0, 0>>, OpenGlDebugContext |-> FALSE,
                                   Visible |-> FALSE]]

\* init(opts, visible): the window hints are set, the window is created (hidden,
\* by the Visible hint), the context is made current, and the window is shown
\* when `visible` is set
init(o, visible) ==
    LET hints  == [ContextVersion |-> o.gl_version,
                   OpenGlDebugContext |->
                       o.gl_debug_output /\ is_debug_output_supported(o.gl_version),
                   Visible |-> FALSE]
        wnd0   == [exists |-> TRUE, visible |-> hints.Visible, should_close |-> FALSE,
                   title |-> "CARGO_PKG_NAME", size |-> <<1280, 720>>, hints |-> hints]
    IN  IF visible THEN [wnd0 EXCEPT !.visible = TRUE] ELSE wnd0

\* glfw.poll_events(): the library delivers `batch`; a close request sets the
\* window's close flag before its event is delivered
poll_events(w, batch) ==
    [w EXCEPT !.should_close = @ \/ (\E i \in 1 .. Len(batch) : batch[i] = Close)]

\* (mutant) the escape key is an ordinary key in every build
BuiltIn_EscapeIgnored(evt, dbg) ==
    IF evt.type = "FramebufferSize" THEN "viewport"
    ELSE IF evt.type = "Close" THEN "break"
    ELSE "none"

\* (mutant) a resize event is left to the application
BuiltIn_NoViewport(evt, dbg) ==
    IF dbg /\ evt.type = "Key" /\ evt.key = "Escape" /\ evt.action = "Press" THEN "break"
    ELSE IF evt.type = "Close" THEN "break"
    ELSE "none"

\* the built-in handling of one event in _run_app_with: "viewport", "break" or "none"
BuiltIn(evt, dbg) ==
    IF evt.type = "FramebufferSize" THEN "viewport"
    ELSE IF dbg /\ evt.type = "Key" /\ evt.key = "Escape" /\ evt.action = "Press" THEN "break"
    ELSE IF evt.type = "Close" THEN "break"
    ELSE "none"

\* (mutant) the window is declared after the app value, so it goes first
DropOrder_WindowFirst(m) ==
    IF m = "app" THEN <<"wnd", "app", "ctx", "events", "glfw">>
    ELSE IF m = "raw" THEN <<"events", "wnd", "glfw">>
    ELSE <<"ctx", "_events", "_wnd", "_glfw">>

\* the locals of each run function, in the order they go out of scope
DropOrder(m) ==
    IF m = "app" THEN <<"app", "ctx", "events", "wnd", "glfw">>
    ELSE IF m = "raw" THEN <<"events", "wnd", "glfw">>
    ELSE <<"ctx", "_events", "_wnd", "_glfw">>

HandleSeq(hs) ==
    LET used == {i \in Slots : hs[i].kind # "none"}
        Pick[S \in SUBSET Slots] ==
            IF S = {} THEN <<>>
            ELSE LET m == CHOOSE i \in S : \A j \in S : i <= j
                 IN  <<hs[m]>> \o Pick[S \ {m}]
    IN  Pick[used]

NoHandles == [i \in Slots |-> NoHandle]

RECURSIVE DropLocals(_, _)
\* the locals in `order` go out of scope one after the other; st = [gl, handles, wnd]
DropLocals(st, order) ==
    IF order = <<>> THEN st
    ELSE LET name == Head(order)
             nxt  == IF name = "app"
                     THEN [st EXCEPT !.gl = DropSeq(st.gl, HandleSeq(st.handles)),
                                     !.handles = NoHandles]
                     ELSE IF name \in {"wnd", "_wnd"}
                     THEN [st EXCEPT !.gl.ctx = FALSE, !.wnd = NoWindow]
                     ELSE st
         IN  DropLocals(nxt, Tail(order))

(* ------------------------------ the runs ------------------------------- *)
NoLast == [op |-> "none"]

\* the state when one of the run entry points `modes` is called: one that takes
\* the options from the caller (with_opts), or one that takes AppOptions::default()
Entered(with_opts, modes) ==
    /\ debug_assertions \in BOOLEAN
    /\ opts \in IF with_opts THEN AppOptions(debug_assertions)
                 ELSE {AppOptions_default(debug_assertions)}
    /\ mode \in modes
    /\ pc = "start"
    /\ result = "none"
    /\ wnd = NoWindow
    /\ viewport = <<1280, 720>>
    /\ events = <<>>
    /\ polled = <<>>
    /\ forwarded = <<>>
    /\ frameLog = <<>>
    /\ frames = 0
    /\ initResult = "none"
    /\ everShown = FALSE
    /\ gl = InitGl
    /\ handles = NoHandles
    /\ opsLeft = MaxOps
    /\ last = NoLast

\* the structured and the headless entry points
Called(with_opts) == Entered(with_opts, Modes)

\* run! / run_headless_once: the entry points that take AppOptions::default()
Init == Called(FALSE)

\* where each run function goes after init(opts, visible): the structured run
\* calls the user's init, the raw run enters its loop, the headless run calls
\* its callback
FirstStep(m) ==
    IF m = "app" THEN "init" ELSE IF m = "raw" THEN "raw_loop" ELSE "headless"

\* (mutant) the headless entry point asks for a visible window too
Setup_HeadlessVisible ==
    /\ pc = "start"
    /\ wnd' = init(opts, TRUE)
    /\ everShown' = wnd'.visible
    /\ gl' = GlCall([gl EXCEPT !.ctx = TRUE])
    /\ pc' = FirstStep(mode)
    /\ UNCHANGED <<opts, debug_assertions, mode, result, viewport, events, polled, forwarded,
                   frameLog, frames, initResult, handles, opsLeft, last>>

\* _run_app_with / run_headless_once_with / run_glfw_with up to the user's first
\* callback: init(opts, visible), then (not in the raw run) RenderingContext::new()
Setup ==
    /\ pc = "start"
    /\ wnd' = init(opts, mode # "headless")
    /\ everShown' = wnd'.visible
    /\ gl' = GlCall([gl EXCEPT !.ctx = TRUE])
    /\ pc' = FirstStep(mode)
    /\ UNCHANGED <<opts, debug_assertions, mode, result, viewport, events, polled, forwarded,
                   frameLog, frames, initResult, handles, opsLeft, last>>

\* (mutant) the result of init is not propagated: the loop is entered anyway
InitReturn_ErrIgnored ==
    /\ pc = "init"
    /\ last.op = "none"
    /\ \E ok \in BOOLEAN :
          /\ initResult' = IF ok THEN "ok" ELSE "err"
          /\ pc' = "loop"
          /\ IF ok
             THEN UNCHANGED <<gl, handles>>
             ELSE /\ gl' = DropSeq(gl, HandleSeq(handles))
                  /\ handles' = NoHandles
    /\ UNCHANGED <<opts, debug_assertions, mode, result, wnd, viewport, events, polled, forwarded,
                   frameLog, frames, everShown, opsLeft, last>>

\* the user's App::init returns Ok or Err; on Err its locals are dropped and
\* `?` returns the error
InitReturn ==
    /\ pc = "init"
    /\ last.op = "none"
    /\ \E ok \in BOOLEAN :
          /\ initResult' = IF ok THEN "ok" ELSE "err"
          /\ IF ok
             THEN /\ pc' = "loop"
                  /\ UNCHANGED <<result, gl, handles>>
             ELSE /\ pc' = "return"
                  /\ result' = "err"
                  /\ gl' = DropSeq(gl, HandleSeq(handles))
                  /\ handles' = NoHandles
    /\ UNCHANGED <<opts, debug_assertions, mode, wnd, viewport, events, polled, forwarded,
                   frameLog, frames, everShown, opsLeft, last>>

\* (mutant) `loop`: the close flag is not tested at the head of the loop
LoopHead_FlagIgnored ==
    /\ pc = "loop"
    /\ frames < MaxFrames
    /\ \E batch \in SeqsOf(WindowEvent, MaxBatch) :
          /\ wnd' = poll_events(wnd, batch)
          /\ events' = batch
          /\ polled' = batch
    /\ forwarded' = <<>>
    /\ frameLog' = <<"poll">>
    /\ frames' = frames + 1
    /\ pc' = "dispatch"
    /\ UNCHANGED <<opts, debug_assertions, mode, result, viewport, initResult, everShown, gl,
                   handles, opsLeft, last>>

\* `while !wnd.should_close()`: leave the loop, or poll the events of the next
\* iteration
LoopHead ==
    /\ pc = "loop"
    /\ IF wnd.should_close
       THEN /\ pc' = "return"
            /\ result' = "ok"
            /\ UNCHANGED <<wnd, events, polled, forwarded, frameLog, frames>>
       ELSE /\ frames < MaxFrames
            /\ \E batch \in SeqsOf(WindowEvent, MaxBatch) :
                  /\ wnd' = poll_events(wnd, batch)
                  /\ events' = batch
                  /\ polled' = batch
            /\ forwarded' = <<>>
            /\ frameLog' = <<"poll">>
            /\ frames' = frames + 1
            /\ pc' = "dispatch"
            /\ UNCHANGED result
    /\ UNCHANGED <<opts, debug_assertions, mode, viewport, initResult, everShown, gl, handles,
                   opsLeft, last>>

\* one turn of `for (_timestamp, evt) in glfw::flush_messages(&events)`: the
\* built-in handling of the next event, then the call of on_event; after the
\* last event the call of update
Dispatch ==
    /\ pc = "dispatch"
    /\ IF events = <<>>
       THEN /\ pc' = "update"
            /\ frameLog' = Append(frameLog, "update")
            /\ UNCHANGED <<result, viewport, events, forwarded, gl>>
       ELSE LET evt == Head(events)
                act == BuiltIn(evt, debug_assertions)
            IN  /\ events' = Tail(events)
                /\ IF act = "break"
                   THEN /\ pc' = "return"
                        /\ result' = "ok"
                        /\ UNCHANGED <<viewport, forwarded, frameLog, gl>>
                   ELSE /\ pc' = "on_event"
                        /\ forwarded' = Append(forwarded, evt)
                        /\ viewport' = IF act = "viewport" THEN <<evt.w, evt.h>> ELSE viewport
                        /\ gl' = IF act = "viewport" THEN GlCall(gl) ELSE gl
                        /\ UNCHANGED <<result, frameLog>>
    /\ UNCHANGED <<opts, debug_assertions, mode, wnd, polled, frames, initResult, everShown,
                   handles, opsLeft, last>>

OnEventReturn ==
    /\ pc = "on_event"
    /\ last.op = "none"
    /\ pc' = "dispatch"
    /\ UNCHANGED <<opts, debug_assertions, mode, result, loopVars, gl, handles, opsLeft, last>>

\* update returns and draw is called
UpdateReturn ==
    /\ pc = "update"
    /\ last.op = "none"
    /\ pc' = "draw"
    /\ frameLog' = Append(frameLog, "draw")
    /\ UNCHANGED <<opts, debug_assertions, mode, result, wnd, viewport, events, polled, forwarded,
                   frames, initResult, everShown, gl, handles, opsLeft, last>>

\* draw returns: swap_buffers, then (debug builds) every pending error code is
\* taken with glGetError and reported
DrawReturn ==
    /\ pc = "draw"
    /\ last.op = "none"
    /\ pc' = "loop"
    /\ frameLog' = frameLog \o (IF debug_assertions THEN <<"present", "drain">>
                                ELSE <<"present">>)
    /\ gl' = IF debug_assertions THEN [GlCall(gl) EXCEPT !.errors = {}] ELSE gl
    /\ UNCHANGED <<opts, debug_assertions, mode, result, wnd, viewport, events, polled, forwarded,
                   frames, initResult, everShown, handles, opsLeft, last>>

\* a callback that is given the window sets its close flag
SetShouldClose ==
    /\ pc \in {"on_event", "update", "raw_callback"}
    /\ last.op = "none"
    /\ ~wnd.should_close
    /\ wnd' = [wnd EXCEPT !.should_close = TRUE]
    /\ UNCHANGED <<opts, debug_assertions, mode, pc, result, viewport, events, polled, forwarded,
                   frameLog, frames, initResult, everShown, gl, handles, opsLeft, last>>

\* the callback of run_headless_once_with returns: its locals are dropped
HeadlessReturn ==
    /\ pc = "headless"
    /\ last.op = "none"
    /\ pc' = "return"
    /\ result' = "ok"
    /\ gl' = DropSeq(gl, HandleSeq(handles))
    /\ handles' = NoHandles
    /\ UNCHANGED <<opts, debug_assertions, mode, loopVars, opsLeft, last>>

\* (mutant) the raw loop flushes the event queue itself before the callback
RawLoopHead_Flushes ==
    /\ pc = "raw_loop"
    /\ IF wnd.should_close
       THEN /\ pc' = "return"
            /\ result' = "ok"
            /\ UNCHANGED <<wnd, events, polled, frameLog, frames>>
       ELSE /\ frames < MaxRawFrames
            /\ \E batch \in SeqsOf(WindowEvent, MaxRawBatch) :
                  /\ wnd' = poll_events(wnd, batch)
                  /\ events' = <<>>
                  /\ polled' = batch
            /\ frameLog' = <<"poll", "callback">>
            /\ frames' = frames + 1
            /\ pc' = "raw_callback"
            /\ UNCHANGED result
    /\ UNCHANGED <<opts, debug_assertions, mode, viewport, forwarded, initResult, everShown, gl,
                   handles, opsLeft, last>>

\* run_glfw_with, `while !wnd.should_close()`: leave the loop, or poll (the
\* events join the queue, which the loop never reads) and call f
RawLoopHead ==
    /\ pc = "raw_loop"
    /\ IF wnd.should_close
       THEN /\ pc' = "return"
            /\ result' = "ok"
            /\ UNCHANGED <<wnd, events, polled, frameLog, frames>>
       ELSE /\ frames < MaxRawFrames
            /\ \E batch \in SeqsOf(WindowEvent, MaxRawBatch) :
                  /\ wnd' = poll_events(wnd, batch)
                  /\ events' = events \o batch
                  /\ polled' = batch
            /\ frameLog' = <<"poll", "callback">>
            /\ frames' = frames + 1
            /\ pc' = "raw_callback"
            /\ UNCHANGED result
    /\ UNCHANGED <<opts, debug_assertions, mode, viewport, forwarded, initResult, everShown, gl,
                   handles, opsLeft, last>>

\* the raw callback takes the next event from the queue it was handed, and
\* either ignores it or handles it as the structured loop would (viewport on a
\* resize, the close flag on a close request)
RawTakeEvent ==
    /\ pc = "raw_callback"
    /\ events # <<>>
    /\ events' = Tail(events)
    /\ forwarded' = Append(forwarded, Head(events))
    /\ \E handles_it \in BOOLEAN :
          LET act == IF handles_it THEN BuiltIn(Head(events), debug_assertions) ELSE "none"
          IN  /\ viewport' = IF act = "viewport" THEN <<Head(events).w, Head(events).h>>
                             ELSE viewport
              /\ gl' = IF act = "viewport" THEN GlCall(gl) ELSE gl
              /\ wnd' = IF act = "break" THEN [wnd EXCEPT !.should_close = TRUE] ELSE wnd
    /\ UNCHANGED <<opts, debug_assertions, mode, pc, result, polled, frameLog, frames,
                   initResult, everShown, handles, opsLeft, last>>

\* f returns: swap_buffers, then (debug builds) every pending error code is
\* taken with glGetError and reported
RawCallbackReturn ==
    /\ pc = "raw_callback"
    /\ pc' = "raw_loop"
    /\ frameLog' = frameLog \o (IF debug_assertions THEN <<"present", "drain">>
                                ELSE <<"present">>)
    /\ gl' = IF debug_assertions THEN [GlCall(gl) EXCEPT !.errors = {}] ELSE gl
    /\ UNCHANGED <<opts, debug_assertions, mode, result, wnd, viewport, events, polled, forwarded,
                   frames, initResult, everShown, handles, opsLeft, last>>

\* the run function returns (or unwinds): its locals go out of scope
Return ==
    /\ pc = "return"
    /\ LET st == DropLocals([gl |-> gl, handles |-> handles, wnd |-> wnd], DropOrder(mode))
       IN  /\ gl' = st.gl
           /\ handles' = st.handles
           /\ wnd' = st.wnd
    /\ pc' = "done"
    /\ last' = [op |-> "return", dropped |-> Len(HandleSeq(handles))]
    /\ UNCHANGED <<opts, debug_assertions, mode, result, viewport, events, polled, forwarded,
                   frameLog, frames, initResult, everShown, opsLeft>>

(* ------------------ resource operations in callbacks ------------------- *)
\* the callbacks that are given the RenderingContext
CtxCallbacks == {"init", "on_event", "update", "draw", "headless"}

FreeSlots(hs) == {i \in Slots : hs[i].kind = "none"}
SlotsOf(hs, k) == {i \in Slots : hs[i].kind = k}

RECURSIVE Place(_, _)
\* the new handles are kept: each takes the lowest free slot
Place(hs, new) ==
    IF new = <<>> THEN hs
    ELSE LET f == CHOOSE i \in FreeSlots(hs) : \A j \in FreeSlots(hs) : i <= j
         IN  Place([hs EXCEPT ![f] = Head(new)], Tail(new))

\* a panic inside a callback unwinds: the handles that are still locals of the
\* callback (init's, the headless closure's) are dropped with its frame; the
\* others belong to the app value and go with the run function's locals
Unwind(g, hs, at) ==
    IF at \in {"init", "headless"}
    THEN [gl |-> DropSeq(g, HandleSeq(hs)), handles |-> NoHandles]
    ELSE [gl |-> g, handles |-> hs]

\* the effect of a resource operation: the driver state g, the handles hs, the
\* record of the operation, and whether it panicked
Finish(g, hs, rec, panicked) ==
    /\ opsLeft' = opsLeft - 1
    /\ last' = rec
    /\ IF panicked
       THEN /\ gl' = Unwind(g, hs, pc).gl
            /\ handles' = Unwind(g, hs, pc).handles
            /\ pc' = "return"
            /\ result' = "panic"
            /\ initResult' = IF pc = "init" THEN "panic" ELSE initResult
       ELSE /\ gl' = g
            /\ handles' = hs
            /\ UNCHANGED <<pc, result, initResult>>
    /\ UNCHANGED <<opts, debug_assertions, mode, wnd, viewport, events, polled, forwarded,
                   frameLog, frames, everShown>>

\* a callback is running, holds no unconsumed result, and may operate
Idle == last.op = "none"
MayOperate == pc \in CtxCallbacks /\ Idle /\ opsLeft > 0

\* the callback goes on after an operation: the returned value is dropped
Resume ==
    /\ pc \in CtxCallbacks
    /\ ~Idle
    /\ last' = NoLast
    /\ UNCHANGED <<opts, debug_assertions, mode, pc, result, loopVars, gl, handles, opsLeft>>

\* ctx.create_buffer() / ctx.create_buffers::<N>()
CreateBuffers ==
    /\ MayOperate
    /\ \E n \in 1 .. 2 :
          /\ Cardinality(FreeSlots(handles)) >= n
          /\ \E ids \in DriverNames(gl, "Buffer", n) :
                LET r == Buffer_create_multi(gl, ids, debug_assertions)
                IN  Finish(r.gl, Place(handles, r.bufs),
                           [op |-> "create", kind |-> "Buffer", ids |-> ids,
                            outcome |-> IF r.panicked THEN "panic" ELSE "ok",
                            made |-> r.bufs, err |-> NoError, via |-> "new"],
                           r.panicked)

\* ctx.create_buffer_with_data(usage, data)
CreateBufferWithData ==
    /\ MayOperate
    /\ FreeSlots(handles) # {}
    /\ \E ids \in DriverNames(gl, "Buffer", 1), usage \in BufferUsage, elem \in ElemSizes,
          bytes \in ByteSeqs :
          /\ Len(bytes) % elem = 0
          /\ LET r == Buffer_with_data(gl, ids, Len(bytes) \div elem, elem, bytes,
                                       debug_assertions)
             IN  Finish(r.gl, Place(handles, r.bufs),
                        [op |-> "create", kind |-> "Buffer", ids |-> ids,
                         outcome |-> IF r.panicked THEN "panic" ELSE "ok",
                         made |-> r.bufs, err |-> NoError, via |-> "with_data"],
                        r.panicked)

\* buf.write(usage, data) with data: &[T], size_of::<T>() = elem
BufferWrite ==
    /\ MayOperate
    /\ \E i \in SlotsOf(handles, "Buffer"), usage \in BufferUsage, elem \in ElemSizes,
          bytes \in ByteSeqs :
          /\ Len(bytes) % elem = 0
          /\ LET r == Buffer_write(gl, handles[i], Len(bytes) \div elem, elem, bytes)
             IN  Finish(r.gl, [handles EXCEPT ![i] = r.buf],
                        [op |-> "write", slot |-> i, bytes |-> bytes, usage |-> usage,
                         count |-> Len(bytes) \div elem, elem |-> elem,
                         before |-> handles[i].size],
                        FALSE)

\* the offsets the callbacks read at: inside and just past the longest data,
\* and the largest usize
ReadOffsets == 0 .. MaxLen \cup {UsizeMax}

\* buf.read(offset, data) with data: &mut [T] of `count` elements, zeroed
BufferRead ==
    /\ MayOperate
    /\ \E i \in SlotsOf(handles, "Buffer"), offset \in ReadOffsets, elem \in ElemSizes,
          count \in 0 .. MaxLen :
          /\ count * elem <= MaxLen
          /\ LET r == Buffer_read(gl, handles[i], offset, count, elem,
                                  Zeros(count * elem), debug_assertions)
             IN  Finish(r.gl, handles,
                        [op |-> "read", slot |-> i, id |-> handles[i].handle,
                         offset |-> offset,
                         len |-> count * elem, size |-> handles[i].size,
                         written |-> handles[i].written,
                         issued |-> r.issued, panicked |-> r.panicked, dst |-> r.dst],
                        r.panicked)

\* a handle goes out of scope inside a callback
DropHandle ==
    /\ MayOperate
    /\ \E i \in Slots :
          /\ handles[i].kind # "none"
          /\ Finish(Drop(gl, handles[i]), [handles EXCEPT ![i] = NoHandle],
                    [op |-> "drop", kind |-> handles[i].kind, id |-> handles[i].handle],
                    FALSE)

\* ctx.create_shader_stage(kind, source)
CreateShaderStage ==
    /\ MayOperate
    /\ FreeSlots(handles) # {}
    /\ \E kind \in ShaderStageKind, ids \in DriverNames(gl, "ShaderStage", 1),
          compiles \in BOOLEAN, log \in DriverLogs :
          LET r == ShaderStage_create(gl, kind, ids[1], compiles, log, debug_assertions)
          IN  Finish(r.gl,
                     IF r.outcome = "ok" THEN Place(handles, <<r.handle>>) ELSE handles,
                     [op |-> "create", kind |-> "ShaderStage", ids |-> ids,
                      outcome |-> r.outcome,
                      made |-> IF r.outcome = "ok" THEN <<r.handle>> ELSE <<>>,
                      err |-> r.err, stage |-> kind],
                     r.outcome = "panic")

\* ctx.create_shader(&stages)
CreateShader ==
    /\ MayOperate
    /\ FreeSlots(handles) # {}
    /\ \E st \in SeqsOf(SlotsOf(handles, "ShaderStage"), 2),
          ids \in DriverNames(gl, "Shader", 1),
          links \in BOOLEAN, validates \in BOOLEAN, log \in DriverLogs :
          LET stages == [i \in 1 .. Len(st) |-> handles[st[i]].handle]
              r == Shader_create(gl, stages, ids[1], links, validates, log, debug_assertions)
          IN  Finish(r.gl,
                     IF r.outcome = "ok" THEN Place(handles, <<r.handle>>) ELSE handles,
                     [op |-> "create", kind |-> "Shader", ids |-> ids,
                      outcome |-> r.outcome,
                      made |-> IF r.outcome = "ok" THEN <<r.handle>> ELSE <<>>,
                      err |-> r.err, stages |-> stages, steps |-> r.steps,
                      status |-> r.status, attachedAtLink |-> r.attachedAtLink],
                     r.outcome = "panic")

\* the descriptors the callbacks build: buffers of the program, bind points,
\* and no or two attributes with their bindings, each in appended order
Descs(hs) ==
    {[buffers |-> [i \in 1 .. Len(b) |-> hs[b[i]]], bind_points |-> p,
      bindings |-> da[1], attribs |-> da[2]] :
        b \in SeqsOf(SlotsOf(hs, "Buffer"), 2), p \in {<<>>, <<0>>, <<1, 0>>},
        da \in {<<<<>>, <<>>>>, <<<<<<1, 0>>, <<0, 1>>>>, <<1, 0>>>>}}

\* ctx.create_vertex_array(desc)
CreateVertexArray ==
    /\ MayOperate
    /\ FreeSlots(handles) # {}
    /\ \E desc \in Descs(handles), ids \in DriverNames(gl, "VertexArray", 1) :
          LET r == VertexArray_new(gl, desc, ids[1], debug_assertions)
          IN  Finish(r.gl,
                     IF r.panicked THEN handles ELSE Place(handles, <<r.handle>>),
                     [op |-> "create", kind |-> "VertexArray", ids |-> ids,
                      outcome |-> IF r.panicked THEN "panic" ELSE "ok",
                      made |-> IF r.panicked THEN <<>> ELSE <<r.handle>>,
                      err |-> NoError, desc |-> desc, calls |-> r.calls],
                     r.panicked)

\* the sizes textures are created with: small ones, and ones with one side
\* and with both sides of i32::MAX
TextureSizes == {<<1, 1>>, <<2, 1>>, <<I32Max, 1>>, <<I32Max, I32Max>>}

\* ctx.create_texture(size, internal_format)
CreateTexture ==
    /\ MayOperate
    /\ FreeSlots(handles) # {}
    /\ \E size \in TextureSizes, ids \in DriverNames(gl, "Texture", 1) :
          LET r == Texture_create(gl, size, ids[1], debug_assertions)
          IN  Finish(r.gl,
                     IF r.panicked THEN handles ELSE Place(handles, <<r.handle>>),
                     [op |-> "create", kind |-> "Texture", ids |-> ids,
                      outcome |-> IF r.panicked THEN "panic" ELSE "ok",
                      made |-> IF r.panicked THEN <<>> ELSE <<r.handle>>,
                      err |-> NoError],
                     r.panicked)

\* the regions the callbacks upload: origins and extents inside and outside
\* the textures, and beyond i32::MAX
TexOrigins == {0, 1, U32Max} \X {0, 1}
TexExtents == {1, 2, I32Max, U32Max} \X {1}

\* tex.upload_sub_image_data((x, y), (width, height), format, pixels)
TextureUpload ==
    /\ MayOperate
    /\ \E i \in SlotsOf(handles, "Texture"), o \in TexOrigins, e \in TexExtents,
          format \in PixelFormat, len \in 0 .. MaxLen :
          LET r == Texture_upload_sub_image_data(gl, handles[i], o[1], o[2], e[1], e[2],
                                                 format, len, debug_assertions)
          IN  Finish(r.gl, handles,
                     [op |-> "upload", id |-> handles[i].handle, dims |-> handles[i].dims,
                      x |-> o[1], y |-> o[2], width |-> e[1], height |-> e[2],
                      format |-> format, len |-> len, panicked |-> r.panicked,
                      calls |-> r.calls, accepted |-> r.accepted, read |-> r.read],
                     r.panicked)

\* unsafe { tex.upload_sub_image_data_from_ptr((x, y), (width, height), format,
\* pixels) } with a pointer to enough bytes
TextureUploadFromPtr ==
    /\ MayOperate
    /\ \E i \in SlotsOf(handles, "Texture"), o \in TexOrigins, e \in TexExtents :
          LET r == Texture_upload_sub_image_data_from_ptr(gl, handles[i], o[1], o[2],
                                                          e[1], e[2], debug_assertions)
          IN  Finish(r.gl, handles,
                     [op |-> "upload_from_ptr", id |-> handles[i].handle,
                      dims |-> handles[i].dims,
                      x |-> o[1], y |-> o[2], width |-> e[1], height |-> e[2],
                      panicked |-> r.panicked, calls |-> r.calls, accepted |-> r.accepted],
                     r.panicked)

\* a uniform name is resolved in a program the callback holds
GetUniformLocation ==
    /\ MayOperate
    /\ \E i \in SlotsOf(handles, "Shader"), has_nul \in BOOLEAN, loc \in DriverLocs,
          ub \in {"abort", "call"} :
          /\ ub = "abort" => (has_nul /\ ~debug_assertions)
          /\ LET r == get_uniform_location(gl, handles[i].handle, has_nul, loc,
                                           debug_assertions, ub)
             IN  IF r.aborted
                 THEN \* the process is killed: nothing unwinds, nothing is dropped
                      /\ pc' = "aborted"
                      /\ result' = "abort"
                      /\ last' = [op |-> "uniform", asked |-> FALSE, panicked |-> FALSE,
                                  aborted |-> TRUE, loc |-> 0, result |-> None]
                      /\ opsLeft' = opsLeft - 1
                      /\ UNCHANGED <<opts, debug_assertions, mode, loopVars, gl, handles>>
                 ELSE Finish(r.gl, handles,
                             [op |-> "uniform", asked |-> r.asked, panicked |-> r.panicked,
                              aborted |-> FALSE, loc |-> r.loc, result |-> r.result],
                             r.panicked)

\* the steps of the run functions
RunStep ==
    \/ Setup
    \/ InitReturn
    \/ LoopHead
    \/ Dispatch
    \/ OnEventReturn
    \/ UpdateReturn
    \/ DrawReturn
    \/ SetShouldClose
    \/ HeadlessReturn
    \/ Return
    \/ Resume

\* The run loops, with callbacks that create and drop resources.
Next ==
    \/ RunStep
    \/ CreateBuffers
    \/ DropHandle

Spec == Init /\ [][Next]_vars

\* The resource interface: a headless run whose callback creates, combines
\* and drops resources of every kind.
ResInit == Init /\ mode = "headless"

ResNext ==
    \/ Setup
    \/ HeadlessReturn
    \/ Return
    \/ Resume
    \/ CreateBuffers
    \/ BufferWrite
    \/ DropHandle
    \/ CreateShaderStage
    \/ CreateShader
    \/ CreateVertexArray
    \/ CreateTexture

ResSpec == ResInit /\ [][ResNext]_vars

\* The uniform lookup: a headless run whose callback creates shader stages and
\* programs, resolves uniform names in them and drops them.
UniformNext ==
    \/ Setup
    \/ HeadlessReturn
    \/ Return
    \/ Resume
    \/ CreateShaderStage
    \/ CreateShader
    \/ GetUniformLocation
    \/ DropHandle

UniformSpec == ResInit /\ [][UniformNext]_vars

\* The buffer interface: a headless run whose callback creates buffers, writes
\* and reads them and drops them.
BufferNext ==
    \/ Setup
    \/ HeadlessReturn
    \/ Return
    \/ Resume
    \/ CreateBuffers
    \/ CreateBufferWithData
    \/ BufferWrite
    \/ BufferRead
    \/ DropHandle

BufferSpec == ResInit /\ [][BufferNext]_vars

\* The texture interface: a headless run whose callback creates textures,
\* uploads regions to them and drops them.
TexNext ==
    \/ Setup
    \/ HeadlessReturn
    \/ Return
    \/ Resume
    \/ CreateTexture
    \/ TextureUpload
    \/ TextureUploadFromPtr
    \/ DropHandle

TexSpec == ResInit /\ [][TexNext]_vars

\* The runs entered with any options (run_with!, run_headless_once_with), with
\* callbacks that perform no resource operation.
WndInit == Called(TRUE)

WndNext ==
    \/ Setup
    \/ InitReturn
    \/ LoopHead
    \/ Dispatch
    \/ OnEventReturn
    \/ UpdateReturn
    \/ DrawReturn
    \/ SetShouldClose
    \/ HeadlessReturn
    \/ Return

WndSpec == WndInit /\ [][WndNext]_vars

\* The runs entered with the default options when the program keeps running:
\* the run functions are sequential code on one thread, so the next step of a
\* run function is eventually taken, and every user callback eventually
\* returns.
LiveSpec == Init /\ [][WndNext]_vars /\ WF_vars(WndNext)

\* The raw run (run_glfw): the loop of run_glfw_with and a callback that reads
\* the event queue and the window as it likes.
RawInit == Entered(FALSE, {"raw"})

RawNext ==
    \/ Setup
    \/ RawLoopHead
    \/ RawTakeEvent
    \/ RawCallbackReturn
    \/ SetShouldClose
    \/ Return

RawSpec == RawInit /\ [][RawNext]_vars

(* ------------------------------- claims -------------------------------- *)
FrameSteps(log) == SelectSeq(log, LAMBDA x : x \in {"update", "draw", "present"})
HasClose(batch) == \E i \in 1 .. Len(batch) : batch[i] = Close
HoldersOf(k, id) == {i \in Slots : handles[i].kind = k /\ handles[i].handle = id}

\* C1: in structured mode, when a close-request event was polled in the
\* iteration after which the run returns, that iteration's update, draw and
\* present each ran once, in that order.
C1_CloseFinishesFrame ==
    (mode = "app" /\ pc \in {"return", "done"} /\ result = "ok" /\ HasClose(polled))
        => FrameSteps(frameLog) = <<"update", "draw", "present">>

\* C2: in structured mode the window is visible only once the init callback has
\* returned success, and a run whose init failed never showed the window.
C2_ShownOnlyAfterInit ==
    mode = "app" =>
        /\ wnd.visible => initResult = "ok"
        /\ initResult = "err" => ~everShown

\* C3: in structured mode, once the events of an iteration have been
\* dispatched, every polled event has been passed to on_event, in order.
C3_EveryEventForwarded ==
    (mode = "app" /\ pc \notin {"dispatch", "on_event"} /\ result # "panic")
        => forwarded = polled

\* C4: every native name the driver handed out is held by exactly one handle
\* while it is an object, is deleted by the delete primitive of its kind once
\* and not more, is never named in a driver call after that, and none is left
\* when the run is over.
C4_EachIdReleasedOnce ==
    /\ ~gl.stale
    /\ \A k \in Kinds, id \in Ids :
          /\ gl.deleted[k][id] <= 1
          /\ Cardinality(HoldersOf(k, id)) = (IF id \in gl.live[k] THEN 1 ELSE 0)
          /\ id \in gl.live[k] => gl.deleted[k][id] = 0
    /\ pc = "done" => \A k \in Kinds : gl.live[k] = {}

\* C4 witness: a buffer that was created and written has gone out of scope
C4_Witness ==
    /\ last.op = "drop" /\ last.kind = "Buffer" /\ last.id # 0
    /\ gl.deleted["Buffer"][last.id] = 1
    /\ last.id \notin gl.live["Buffer"]

\* C5: in structured and headless mode no driver call is made once the native
\* context is gone, and when the window and the context have been destroyed
\* every handle has been released: no handle and no driver object is left.
C5_ReleasedBeforeContextEnds ==
    /\ ~gl.afterEnd
    /\ pc = "done" =>
          /\ ~gl.ctx /\ ~wnd.exists
          /\ handles = NoHandles
          /\ \A k \in Kinds : gl.live[k] = {}

\* C5 witness: a structured run returned normally while its app still owned
\* handles, and they were released on the way out
C5_Witness ==
    /\ pc = "done" /\ mode = "app" /\ result = "ok"
    /\ last.op = "return" /\ last.dropped > 0
    /\ ~gl.ctx

\* C6: a Buffer::read whose offset + length exceeds the recorded size panics,
\* issues no driver readback and leaves the destination untouched.
C6_OutOfBoundsReadFails ==
    (last.op = "read" /\ last.offset + last.len > last.size)
        => (last.panicked /\ ~last.issued /\ last.dst = Zeros(last.len))

\* C7: a Buffer::read at a range inside the recorded size returns exactly the
\* bytes offset .. offset+length of the data last written to that buffer.
C7_ReadReturnsWritten ==
    (last.op = "read" /\ last.offset + last.len <= last.size)
        => /\ ~last.panicked
           /\ last.dst = SubSeq(last.written, last.offset + 1, last.offset + last.len)

\* C8: whenever a create primitive returned name zero the creation panicked,
\* and no handle wraps name zero.
C8_ZeroIdIsFatal ==
    /\ (last.op = "create" /\ \E i \in 1 .. Len(last.ids) : last.ids[i] = 0)
          => last.outcome = "panic"
    /\ \A i \in Slots : handles[i].kind # "none" => handles[i].handle # 0

\* C9: a shader stage whose compilation failed yields a Compile error with the
\* requested stage kind and a non-empty diagnostic text.
C9_CompileErrorHasText ==
    (last.op = "create" /\ last.kind = "ShaderStage" /\ last.outcome = "err")
        => /\ last.err.type = "Compile"
           /\ last.err.stage = last.stage
           /\ Len(last.err.text) > 0

\* C10: when creating a shader stage or program returned an error, the name
\* carried by the error has been passed to its delete primitive exactly once,
\* is no driver object, and no handle of the program wraps it.
C10_ErrorIdReleased ==
    (last.op = "create" /\ last.outcome = "err")
        => /\ last.err.handle = last.ids[1]
           /\ gl.deleted[last.kind][last.err.handle] = 1
           /\ last.err.handle \notin gl.live[last.kind]
           /\ HoldersOf(last.kind, last.err.handle) = {}

\* C10 witness: a program failed to link or validate on a name the driver gave
C10_Witness ==
    /\ last.op = "create" /\ last.kind = "Shader" /\ last.outcome = "err"
    /\ last.err.handle # 0

SeqRange(s) == {s[i] : i \in 1 .. Len(s)}

\* C11: when Shader creation returns (success, link failure or validation
\* failure), every stage passed in was attached to the program when the link
\* was attempted, and no stage is attached to any program afterwards.
C11_StagesAttachedOnlyDuringLink ==
    (last.op = "create" /\ last.kind = "Shader" /\ last.outcome \in {"ok", "err"})
        => /\ last.attachedAtLink = SeqRange(last.stages)
           /\ \A p \in Ids : gl.attached[p] = {}

\* C12: when Shader creation returns, a link status of failure gave a Link
\* error carrying the program's name and validation was not attempted; a link
\* status of success with a validate status of failure gave a Validation error
\* carrying the program's name; both statuses success gave the program.
C12_LinkAndValidationErrors ==
    (last.op = "create" /\ last.kind = "Shader" /\ last.outcome \in {"ok", "err"})
        => /\ last.steps[1] = "link"
           /\ ~last.status[1] =>
                 /\ last.outcome = "err" /\ last.err.type = "Link"
                 /\ last.err.handle = last.ids[1]
                 /\ last.steps = <<"link">>
           /\ last.status[1] =>
                 /\ last.steps = <<"link", "validate">>
                 /\ ~last.status[2] =>
                       /\ last.outcome = "err" /\ last.err.type = "Validation"
                       /\ last.err.handle = last.ids[1]
                 /\ last.status[2] => last.outcome = "ok" /\ last.err = NoError

\* C12 witness: a program that linked failed validation
C12_Witness ==
    /\ last.op = "create" /\ last.kind = "Shader" /\ last.outcome = "err"
    /\ last.status = <<TRUE, FALSE>>
    /\ last.err.type = "Validation" /\ last.err.handle # 0

\* C13: whenever the driver was asked for a uniform's location, the lookup
\* returned normally; it returned None exactly when the driver reported a
\* negative location, and otherwise the location the driver reported.
C13_AbsentUniformIsNone ==
    (last.op = "uniform" /\ last.asked)
        => /\ ~last.panicked /\ ~last.aborted
           /\ (last.result = None) <=> (last.loc < 0)
           /\ last.loc >= 0 => last.result = Some(last.loc)

\* C13 witness: a name that is no active uniform of a linked program
C13_Witness ==
    /\ last.op = "uniform" /\ last.asked /\ last.loc < 0 /\ last.result = None
    /\ gl.errors = {}

\* C14: a texture sub-upload whose origin + extent exceeds the created size in
\* a dimension panics, and no driver upload call is issued for it.
C14_OversizedUploadRejected ==
    (last.op = "upload" /\ (\/ last.x + last.width > last.dims[1]
                            \/ last.y + last.height > last.dims[2]))
        => last.panicked /\ last.calls = <<>>

\* the phase of a driver call of VertexArrayDesc::apply
Phase(c) ==
    CASE c.fn = "VertexArrayVertexBuffer" -> 1
      [] c.fn = "VertexArrayAttribBinding" -> 2
      [] OTHER -> 3
CallsOfPhase(calls, n) == SelectSeq(calls, LAMBDA c : Phase(c) = n)

\* C15: the driver calls of an applied descriptor come in three phases (bind
\* points, then attribute bindings, then attribute enable and format), and in
\* each phase they follow the order in which the entries were appended.
C15_ApplyInThreePhases ==
    (last.op = "create" /\ last.kind = "VertexArray" /\ last.outcome = "ok")
        => LET calls == last.calls
               desc  == last.desc
               p1    == CallsOfPhase(calls, 1)
               p2    == CallsOfPhase(calls, 2)
               p3    == CallsOfPhase(calls, 3)
           IN  /\ \A i, j \in 1 .. Len(calls) : i < j => Phase(calls[i]) <= Phase(calls[j])
               /\ [i \in 1 .. Len(p1) |-> p1[i].a] = desc.bind_points
               /\ [i \in 1 .. Len(p2) |-> <<p2[i].a, p2[i].b>>] = desc.bindings
               /\ Len(p3) = 2 * Len(desc.attribs)
               /\ \A i \in 1 .. Len(desc.attribs) :
                     /\ p3[2 * i - 1] = Call("EnableVertexArrayAttrib", desc.attribs[i], 0)
                     /\ p3[2 * i] = Call("VertexArrayAttribFormat", desc.attribs[i], 0)

\* C15 witness: a descriptor with two entries of every kind was applied
C15_Witness ==
    /\ last.op = "create" /\ last.kind = "VertexArray" /\ last.outcome = "ok"
    /\ last.ids[1] # 0
    /\ Len(last.desc.bind_points) = 2 /\ Len(last.desc.bindings) = 2
    /\ Len(last.desc.attribs) = 2
    /\ Len(last.calls) = 8

Resizes(batch) == SelectSeq(batch, LAMBDA e : e.type = "FramebufferSize")

\* C16: in structured mode, once the draw callback of an iteration has been
\* invoked, the viewport has the width and height of the resize event polled
\* in that iteration (the last one, when there are several).
C16_ViewportSetBeforeDraw ==
    (mode = "app" /\ Resizes(polled) # <<>> /\ "draw" \in SeqRange(frameLog))
        => LET r == Resizes(polled)[Len(Resizes(polled))]
           IN  viewport = <<r.w, r.h>>

\* C16 witness: draw is running in an iteration that polled a resize
C16_Witness ==
    /\ mode = "app" /\ pc = "draw"
    /\ Resizes(polled) # <<>>
    /\ viewport = <<1, 2>>

\* the events that ask a debug build to close, and the position of the first
\* of them in a batch
AsksToClose(e) == e = Close \/ e = Key("Escape", "Press")
FirstToClose(batch) ==
    CHOOSE i \in 1 .. Len(batch) :
        AsksToClose(batch[i]) /\ \A j \in 1 .. i - 1 : ~AsksToClose(batch[j])

\* C17: in a debug build the loop behaves the same whether the first event that
\* asks to close is an escape-key press or a close request: the events before
\* it were passed to on_event, it and the events after it were not, no update,
\* draw or present follows, and the run returns success at that point.
C17_EscapeClosesLikeClose ==
    (/\ mode = "app" /\ debug_assertions
     /\ \E i \in 1 .. Len(polled) : AsksToClose(polled[i])
     /\ pc \notin {"dispatch", "on_event"} /\ result # "panic")
        => /\ pc \in {"return", "done"} /\ result = "ok"
           /\ forwarded = SubSeq(polled, 1, FirstToClose(polled) - 1)
           /\ Len(events) = Len(polled) - FirstToClose(polled)
           /\ FrameSteps(frameLog) = <<>>

\* C17 witness: a debug run was ended by an escape-key press that followed
\* another event, with no close request in the batch
C17_Witness ==
    /\ mode = "app" /\ debug_assertions /\ pc = "return" /\ result = "ok"
    /\ Len(polled) = 2 /\ polled[2] = Key("Escape", "Press")
    /\ polled[1] # Close /\ forwarded = <<polled[1]>>

\* C18: when the init callback failed, the structured run returns an error
\* without entering the loop: no poll, no on_event, update or draw call and no
\* present happened.
C18_InitFailureReturned ==
    (mode = "app" /\ initResult = "err")
        => /\ pc \in {"return", "done"} /\ result = "err"
           /\ frames = 0 /\ frameLog = <<>>
           /\ polled = <<>> /\ forwarded = <<>>

\* C18 witness: a run whose init failed after creating a resource has returned
C18_Witness ==
    /\ mode = "app" /\ initResult = "err" /\ pc = "done" /\ result = "err"
    /\ opsLeft < MaxOps

\* C19: the native window is created with the title and the pixel size given
\* in the options and with the requested device-API version, and it is created
\* hidden.
C19_WindowUsesOptions ==
    wnd.exists
        => /\ wnd.title = opts.title
           /\ wnd.size = opts.window_size
           /\ wnd.hints.ContextVersion = opts.gl_version
           /\ ~wnd.hints.Visible

\* C20: in headless mode the window is never shown, no poll, loop iteration or
\* present happens, the callback runs with a current context on an existing
\* window, and it is entered once: from the setup, and the run returns only
\* out of it.
C20_HeadlessRunsCallbackOnce ==
    /\ [](mode = "headless" =>
            /\ ~wnd.visible /\ ~everShown
            /\ frames = 0 /\ frameLog = <<>> /\ polled = <<>> /\ forwarded = <<>>
            /\ pc \in {"start", "headless", "return", "done", "aborted"}
            /\ pc = "headless" => gl.ctx /\ wnd.exists)
    /\ [][mode = "headless" =>
            /\ pc = "start" => pc' \in {"start", "headless"}
            /\ pc' = "start" => pc = "start"
            /\ (pc' = "headless" /\ pc # "headless") => pc = "start"
            /\ (pc' = "return" /\ pc # "return") => pc = "headless"]_vars

\* C20 witness: a headless run whose callback used the context has returned
C20_Witness ==
    /\ mode = "headless" /\ pc = "done" /\ result = "ok"
    /\ opsLeft < MaxOps /\ ~everShown /\ ~gl.afterEnd

\* the steps of a complete iteration of the raw loop
RawIteration ==
    <<"poll", "callback", "present">> \o (IF debug_assertions THEN <<"drain">> ELSE <<>>)

\* C21: in raw mode a step of the loop itself (the poll with the call of the
\* callback, the present after it, the exit) leaves the viewport alone, takes no
\* event from the queue and does not leave the loop on a close request; each
\* iteration is poll, one call of the callback, present; and the loop is left
\* only from its head with the close flag set.
C21_RawLoopHandlesNothing ==
    /\ [](mode = "raw" =>
            /\ (pc = "raw_loop" /\ frames > 0) => frameLog = RawIteration
            /\ pc = "raw_callback" => frameLog = <<"poll", "callback">>
            /\ pc = "return" =>
                    (wnd.should_close /\ result = "ok" /\ frameLog \in {<<>>, RawIteration}))
    /\ [][(mode = "raw" /\ pc \in {"raw_loop", "raw_callback"} /\ pc' # pc) =>
            /\ viewport' = viewport
            /\ events' = IF pc' = "raw_callback" THEN events \o polled' ELSE events
            /\ pc' = "return" <=> (pc = "raw_loop" /\ wnd.should_close)
            /\ pc' = "raw_callback" => wnd' = poll_events(wnd, polled')]_vars

\* a raw run returns after two iterations whose callback read nothing: the
\* resize and the close request are still queued, the viewport is as created
C21_Witness ==
    /\ mode = "raw" /\ pc = "return" /\ frames = 2
    /\ events = <<FramebufferSize(1, 2), Close>>
    /\ viewport = <<1280, 720>>
    /\ forwarded = <<>>

\* the steps of a complete iteration of the structured loop
AppIteration ==
    <<"poll", "update", "draw", "present">> \o (IF debug_assertions THEN <<"drain">> ELSE <<>>)

\* C22: in structured mode, whenever an iteration that was started is over (the
\* run is back at the loop head, or has left the loop), it polled, dispatched
\* every polled event, and ran update, draw, present and (debug builds) the
\* drain once each in this order; at the loop head of a debug build no
\* diagnostic code is pending.
C22_IterationRunsEveryStep ==
    (mode = "app" /\ frames > 0 /\ pc \in {"loop", "return", "done"} /\ result # "panic") =>
        /\ frameLog = AppIteration
        /\ (pc = "loop" /\ debug_assertions) => gl.errors = {}

\* C23: a buffer that was just created by Buffer::new / new_multi has recorded
\* size 0, and after a write the recorded size is the element count times the
\* element size of that write, whatever the size before and the usage hint.
C23_SizeIsLastWrite ==
    /\ (last.op = "create" /\ last.kind = "Buffer" /\ last.via = "new") =>
            \A i \in 1 .. Len(last.made) : last.made[i].size = 0
    /\ last.op = "write" =>
            /\ handles[last.slot].size = last.count * last.elem
            /\ handles[last.slot].size = Len(last.bytes)

\* a buffer of recorded size 2 was written with one byte and has size 1
C23_Witness ==
    /\ last.op = "write"
    /\ handles[last.slot].handle # 0
    /\ last.before = 2
    /\ last.count * last.elem = 1
    /\ handles[last.slot].size = 1

\* C24: a Buffer::read whose offset + byte length does not fit the machine
\* word is rejected: it panics and no driver readback is issued.
C24_ReadCheckSurvivesOverflow ==
    (last.op = "read" /\ last.offset + last.len > UsizeMax)
        => (last.panicked /\ ~last.issued)

C26_UploadReadsInsideSlice ==
    last.op = "upload" =>
        /\ last.calls # <<>> =>
                last.width * last.height * Components(last.format) <= last.len
        /\ last.read <= last.len

\* C27: a sub-upload from a pointer whose origin + extent is inside the created
\* size in both dimensions, with origin and extent components that are an
\* i32, does not panic and issues exactly one driver upload with that origin
\* and extent.
C27_InsideUploadPasses ==
    (/\ last.op = "upload_from_ptr"
     /\ last.x + last.width <= last.dims[1] /\ last.y + last.height <= last.dims[2]
     /\ \A v \in {last.x, last.y, last.width, last.height} : v <= I32Max)
        => /\ ~last.panicked
           /\ last.calls = <<[x |-> last.x, y |-> last.y, width |-> last.width,
                               height |-> last.height]>>

\* C28: in structured mode, when the run leaves the loop with the close flag
\* set by a callback (no close request was polled, so the poll did not set
\* it), the iteration in which it was set ran update, draw and present, and no
\* other iteration was started after it.
C28_FlagFinishesFrame ==
    (mode = "app" /\ pc = "return" /\ result = "ok" /\ frames > 0
        /\ wnd.should_close /\ ~HasClose(polled))
        => frameLog = AppIteration

C30_StagesSurviveCreation ==
    (last.op = "create" /\ last.kind = "Shader" /\ last.outcome \in {"ok", "err"}) =>
        \A i \in 1 .. Len(last.stages) :
            /\ Cardinality(HoldersOf("ShaderStage", last.stages[i])) >= 1
            /\ last.stages[i] # 0 =>
                  /\ Cardinality(HoldersOf("ShaderStage", last.stages[i])) = 1
                  /\ last.stages[i] \in gl.live["ShaderStage"]
                  /\ gl.deleted["ShaderStage"][last.stages[i]] = 0

\* a program creation with a compiled stage failed (link or validation): the
\* program is gone and the stage is still an object
C30_Witness ==
    /\ last.op = "create" /\ last.kind = "Shader" /\ last.outcome = "err"
    /\ last.ids[1] # 0 /\ last.ids[1] \notin gl.live["Shader"]
    /\ Len(last.stages) >= 1
    /\ \A i \in 1 .. Len(last.stages) : last.stages[i] \in gl.live["ShaderStage"]

====
